---- MODULE Spec2Model ----
(***************************************************************************)
(* Smart-heat automation: the dashboard process (src/app.py) and the       *)
(* controller process (src/controller/controller.py).                      *)
(*                                                                         *)
(* Temperatures are integers in hundredths of a degree Celsius (19.0 C is  *)
(* 1900).  A Python/JSON value is a tagged record: None, Num(n) or Str(s), *)
(* so that "is None" tests and the TypeError of comparing a number with a  *)
(* string are both visible.  A Python dict is a function from key strings  *)
(* to such values; dict.update(d) is d @@ old.  A calendar date is a day   *)
(* number, and a daily database file is named by its day.                  *)
(***************************************************************************)
EXTENDS Integers, Sequences, FiniteSets, TLC

VARIABLES
    \* ---- dashboard process (src/app.py) ----
    latest_sensor_data,        \* dict, app.py:113
    latest_controller_status,  \* dict, app.py:114
    current_app_db_name,       \* day of the partition last opened, app.py:32
    db_tables,                 \* partitions whose readings table exists
    db,                        \* partition -> sequence of rows inserted
    sse_queue,                 \* queue.Queue of events, app.py:117
    today,                     \* the wall clock's calendar date
    observer,                  \* per SSE client: position in event_stream
    received,                  \* per SSE client: the events it was sent
    \* ---- history of the dashboard run (not program state) ----
    processed,                 \* the bus messages handled so far, in order
    produced,                  \* number of events ever put on sse_queue
    attached_at,               \* per SSE client: value of produced at attach
    \* ---- controller process (src/controller/controller.py) ----
    WEATHER_API_KEY,                    \* whether os.getenv found a key, :38
    global_current_setpoint_temp,       \* controller.py:32
    global_weather_api_location,        \* controller.py:39
    global_last_fetched_outside_temp,   \* controller.py:40
    weather_thread_stop_event,          \* controller.py:43
    weather_fetch_trigger_event,        \* controller.py:44
    pc,                        \* per thread: where it is in the code
    current_location_to_fetch, \* per thread: local of controller.py:117
    outside_temp,              \* per thread: local of controller.py:122
    readings,                  \* rows of database/temperature_log.db
    status_feed,               \* what the controller published on the
                               \* status feed topic, in order
    refreshes,                 \* refreshes started so far (history)
    commands,                  \* commands handled so far (history)
    fetched_for                \* the location whose weather the stored last
                               \* outside temperature / setpoint came from
                               \* (history)

dashVars == <<latest_sensor_data, latest_controller_status, current_app_db_name,
              db_tables, db, sse_queue, today, observer, received,
              processed, produced, attached_at>>

ctlVars == <<WEATHER_API_KEY, global_current_setpoint_temp,
             global_weather_api_location, global_last_fetched_outside_temp,
             weather_thread_stop_event, weather_fetch_trigger_event, pc,
             current_location_to_fetch, outside_temp, readings, status_feed,
             refreshes, commands, fetched_for>>

VARIABLES
    \* ---- sensor process (src/sensor/sensor.py) ----
    current_temperature,       \* sensor.py:26
    sensor_is_connected,       \* client.is_connected() of the sensor's client
    last_publish,              \* the latest loop turn: the temperature before
                               \* it, the change drawn, the reading handed to
                               \* client.publish and whether rc was success
                               \* (history)
    \* ---- dashboard web side (src/app.py) ----
    handler_pc,                \* where on_subscriber_message is between two
                               \* of its writes
    rendered,                  \* what the latest GET / handed to the template
    mqtt_publisher_started,    \* _mqtt_publisher_started, app.py:123
    mqtt_publisher_connected,  \* app.py:121
    app_mqtt_publisher_client, \* "none": None; "down"/"up": is_connected()
    command_topic,             \* commands published by the dashboard
    last_request,              \* the latest POST /update_location: whether
                               \* client.connect was called, whether the
                               \* command was sent, the response (history)
    \* ---- controller, temperature branch of on_message ----
    current_indoor_temp,       \* local of controller.py:231
    action                     \* local of controller.py:234-236

senVars == <<current_temperature, sensor_is_connected, last_publish>>

webVars == <<handler_pc, rendered, mqtt_publisher_started,
             mqtt_publisher_connected, app_mqtt_publisher_client,
             command_topic, last_request>>

tmpVars == <<current_indoor_temp, action>>

vars == <<dashVars, ctlVars, senVars, webVars, tmpVars>>

----------------------------------------------------------------------------
\* Bounds of the model.
MaxMsgs == 3        \* bus messages the dashboard handles in one run
MaxFeedMsgs == 2    \* bus messages handled while SSE clients come and go
MaxDay == 2         \* calendar days the clock can reach
NObservers == 2     \* SSE clients
MaxRefreshes == 3   \* weather refreshes the controller starts in one run
MaxCommands == 2    \* command messages the controller handles in one run

----------------------------------------------------------------------------
\* Python values.
None == [t |-> "none"]
Num(n) == [t |-> "num", v |-> n]
Str(s) == [t |-> "str", s |-> s]
\* datetime.now().isoformat(): only the calendar day of the instant is kept.
Iso(day) == [t |-> "iso", day |-> day]

TEMP_DATA_TOPIC == "home/1/temperature"
CONTROLLER_STATUS_TOPIC == "smart_thermostat/controller/status_feed"

HEATER_ON == Str("HEATER ON")
HEATER_OFF == Str("HEATER OFF")

\* dict.get(key): None when the key is missing.
Get(d, k) == IF k \in DOMAIN d THEN d[k] ELSE None
\* dict.get(key, default).
GetOrMutNoDefault(d, k, default) == IF k \in DOMAIN d THEN d[k] ELSE None
GetOr(d, k, default) == IF k \in DOMAIN d THEN d[k] ELSE default

\* Python's a < b on two non-None values raises TypeError unless both are
\* numbers or both are strings.
Comparable(a, b) == a.t = b.t /\ a.t \in {"num", "str"}
\* a < b.  The model has a single string value, so two strings are equal.
Less(a, b) == IF a.t = "num" THEN a.v < b.v ELSE FALSE

\* app.py:152 and app.py:174
ActionFor(temp, setpoint) == IF Less(temp, setpoint) THEN HEATER_ON ELSE HEATER_OFF

----------------------------------------------------------------------------
\* Rotating log store, app.py:27-93.

Days == 1..MaxDay

get_daily_db_name(day) == day

\* What the database layer does on this call.  "setup_fail": creating the
\* new partition raises (os.makedirs / sqlite3.connect / CREATE TABLE in
\* setup_daily_database); "connect_fail": sqlite3.connect at app.py:84
\* raises; "insert_fail": execute/commit raises.
DbOutcomes == {"ok", "setup_fail", "connect_fail", "insert_fail"}

\* The row of app.py:65-87.
Row(source_type, data_payload) ==
    [timestamp |-> data_payload["timestamp_iso"],
     temperature |-> IF source_type = "controller_status" THEN None
                     ELSE Get(data_payload, "temperature"),
     action |-> IF source_type = "controller_status" THEN None
                ELSE Get(data_payload, "action"),
     setpoint |-> Get(data_payload, "current_setpoint"),
     outside_temp |-> Get(data_payload, "last_outside_temp"),
     location |-> Get(data_payload, "location"),
     source |-> source_type]

\* log_data_to_db, called when the clock shows `day`.  The result is the new
\* store and whether an exception left the function.  The rollover
\* (app.py:59-63) runs outside the try block, so a failure of
\* setup_daily_database propagates, after current_app_db_name was switched.
\* A failing sqlite3.connect leaves the local `conn` unbound: the except
\* clause handles sqlite3.Error, then `if conn:` in the finally clause raises
\* UnboundLocalError, which propagates.  A failing insert is caught.
log_data_to_db(source_type, data_payload, day, outcome) ==
    LET daily_name == get_daily_db_name(day)
        rollover == daily_name # current_app_db_name
        setup_raises == rollover /\ outcome = "setup_fail"
        tables == IF rollover /\ ~setup_raises
                  THEN db_tables \cup {daily_name} ELSE db_tables
        connect_raises == outcome = "connect_fail"
        insert_raises == outcome = "insert_fail" \/ daily_name \notin tables
    IN  IF setup_raises
        THEN [name |-> daily_name, tables |-> db_tables, db |-> db, raised |-> TRUE]
        ELSE IF connect_raises
        THEN [name |-> daily_name, tables |-> tables, db |-> db, raised |-> TRUE]
        ELSE IF insert_raises
        THEN [name |-> daily_name, tables |-> tables, db |-> db, raised |-> FALSE]
        ELSE [name |-> daily_name, tables |-> tables,
              db |-> [db EXCEPT ![daily_name] =
                         Append(@, Row(source_type, data_payload))],
              raised |-> FALSE]

----------------------------------------------------------------------------
\* Bus messages, app.py:130-179.  json_ok = FALSE: the payload is not JSON.

Msg(topic, payload) == [topic |-> topic, json_ok |-> TRUE, payload |-> payload]
BadJson(topic) == [topic |-> topic, json_ok |-> FALSE, payload |-> <<>>]

\* An event of the broadcast queue; seq numbers the events in production
\* order (history, not part of the Python object).
Event(type, data, n) == [type |-> type, data |-> data, seq |-> n]

\* The dashboard state after the handler; `same` is the state before.
same == [sensor |-> latest_sensor_data, status |-> latest_controller_status,
         name |-> current_app_db_name, tables |-> db_tables, db |-> db,
         queue |-> sse_queue, produced |-> produced]

\* app.py:137-156
OnTemperature(payload, stamp_day, log_day, outcome) ==
    IF "temperature" \notin DOMAIN payload THEN same
    ELSE
    LET temp_value == payload["temperature"]
        setpoint_for_action == Get(latest_controller_status, "current_setpoint")
        both == temp_value # None /\ setpoint_for_action # None
        current_sensor_event_data ==
            [temperature |-> temp_value,
             action |-> IF both THEN ActionFor(temp_value, setpoint_for_action)
                        ELSE None,
             timestamp_iso |-> Iso(stamp_day),
             current_setpoint |-> setpoint_for_action,
             last_outside_temp |-> Get(latest_controller_status, "last_outside_temp"),
             location |-> Get(latest_controller_status, "location")]
        sensor == current_sensor_event_data @@ latest_sensor_data
        log == log_data_to_db("sensor_update", current_sensor_event_data,
                              log_day, outcome)
    IN  IF both /\ ~Comparable(temp_value, setpoint_for_action)
        THEN same    \* TypeError at app.py:152, before any assignment
        ELSE [sensor |-> sensor, status |-> latest_controller_status,
              name |-> log.name, tables |-> log.tables, db |-> log.db,
              queue |-> IF log.raised THEN sse_queue
                        ELSE Append(sse_queue,
                                    Event("sensor_update", sensor, produced + 1)),
              produced |-> IF log.raised THEN produced ELSE produced + 1]

\* latest_sensor_data["action"] = new_action, app.py:176
SetActionMutTemperature(sensor, new_action) ==
    [sensor EXCEPT !["temperature"] = new_action]
SetAction(sensor, new_action) == [sensor EXCEPT !["action"] = new_action]

\* app.py:158-177
OnControllerStatus(payload, stamp_day, log_day, outcome) ==
    LET new_controller_status_data ==
            [location |-> GetOr(payload, "location",
                                latest_controller_status["location"]),
             current_setpoint |-> GetOr(payload, "current_setpoint",
                                latest_controller_status["current_setpoint"]),
             last_outside_temp |-> GetOr(payload, "last_outside_temp",
                                latest_controller_status["last_outside_temp"]),
             timestamp_iso |-> Iso(stamp_day)]
        status == new_controller_status_data @@ latest_controller_status
        log == log_data_to_db("controller_status", status, log_day, outcome)
        queue1 == Append(sse_queue, Event("controller_status", status, produced + 1))
        temp == Get(latest_sensor_data, "temperature")
        setpoint == Get(status, "current_setpoint")
        both == temp # None /\ setpoint # None
        new_action == ActionFor(temp, setpoint)
        flips == both /\ Comparable(temp, setpoint)
                 /\ new_action # Get(latest_sensor_data, "action")
        sensor == IF flips THEN SetAction(latest_sensor_data, new_action)
                  ELSE latest_sensor_data
    IN  IF log.raised
        THEN [sensor |-> latest_sensor_data, status |-> status,
              name |-> log.name, tables |-> log.tables, db |-> log.db,
              queue |-> sse_queue, produced |-> produced]
        ELSE [sensor |-> sensor, status |-> status,
              name |-> log.name, tables |-> log.tables, db |-> log.db,
              queue |-> IF flips
                        THEN Append(queue1, Event("sensor_update", sensor, produced + 2))
                        ELSE queue1,
              produced |-> IF flips THEN produced + 2 ELSE produced + 1]

\* on_subscriber_message, app.py:130-179: every exception is caught and
\* logged at app.py:179, leaving what was assigned before it.  stamp_day is
\* the date read at app.py:135, log_day the date read at app.py:59.
HandlerResult(msg, stamp_day, log_day, outcome) ==
    IF ~msg.json_ok THEN same
    ELSE IF msg.topic = TEMP_DATA_TOPIC
    THEN OnTemperature(msg.payload, stamp_day, log_day, outcome)
    ELSE OnControllerStatus(msg.payload, stamp_day, log_day, outcome)

on_subscriber_message(msg, log_day, outcome) ==
    /\ Len(processed) < MaxMsgs
    /\ log_day \in {today, today + 1} \cap Days
    /\ LET r == HandlerResult(msg, today, log_day, outcome)
       IN  /\ latest_sensor_data' = r.sensor
           /\ latest_controller_status' = r.status
           /\ current_app_db_name' = r.name
           /\ db_tables' = r.tables
           /\ db' = r.db
           /\ sse_queue' = r.queue
           /\ produced' = r.produced
    /\ today' = log_day
    /\ processed' = Append(processed, msg)
    /\ UNCHANGED <<observer, received, attached_at>>
    /\ UNCHANGED <<ctlVars, senVars, webVars, tmpVars>>

\* The calendar date changes between two messages.
DateChange ==
    /\ today < MaxDay
    /\ today' = today + 1
    /\ UNCHANGED <<latest_sensor_data, latest_controller_status,
                   current_app_db_name, db_tables, db, sse_queue, observer,
                   received, processed, produced, attached_at>>
    /\ UNCHANGED <<ctlVars, senVars, webVars, tmpVars>>

----------------------------------------------------------------------------
\* Live feed, app.py:269-278.  Every client of /dashboard_feed runs its own
\* event_stream generator over the one module-level sse_queue.

Observers == 1..NObservers

\* sse_queue.get(), app.py:274: the oldest message leaves the queue.
QueueGetMutNewest(q) ==
    [message |-> q[Len(q)], rest |-> SubSeq(q, 1, Len(q) - 1)]
QueueGet(q) == [message |-> Head(q), rest |-> Tail(q)]

\* GET /dashboard_feed: the generator starts and reaches sse_queue.get().
dashboard_feed(o) ==
    /\ observer[o] = "detached"
    /\ observer' = [observer EXCEPT ![o] = "waiting"]
    /\ attached_at' = [attached_at EXCEPT ![o] = produced]
    /\ UNCHANGED <<latest_sensor_data, latest_controller_status,
                   current_app_db_name, db_tables, db, sse_queue, today,
                   received, processed, produced>>
    /\ UNCHANGED <<ctlVars, senVars, webVars, tmpVars>>

\* One turn of the loop of event_stream: get() returns the head of the
\* queue, which is yielded to this client.
event_stream(o) ==
    /\ observer[o] = "waiting"
    /\ sse_queue # <<>>
    /\ received' = [received EXCEPT ![o] = Append(@, QueueGet(sse_queue).message)]
    /\ sse_queue' = QueueGet(sse_queue).rest
    /\ UNCHANGED <<latest_sensor_data, latest_controller_status,
                   current_app_db_name, db_tables, db, today, observer,
                   processed, produced, attached_at>>
    /\ UNCHANGED <<ctlVars, senVars, webVars, tmpVars>>

\* The client stops reading: its generator is not resumed after the yield.
ObserverBlocks(o) ==
    /\ observer[o] = "waiting"
    /\ observer' = [observer EXCEPT ![o] = "blocked"]
    /\ UNCHANGED <<latest_sensor_data, latest_controller_status,
                   current_app_db_name, db_tables, db, sse_queue, today,
                   received, processed, produced, attached_at>>
    /\ UNCHANGED <<ctlVars, senVars, webVars, tmpVars>>

----------------------------------------------------------------------------
\* Controller, src/controller/controller.py.  Two threads run refreshes: the
\* weather thread (controller.py:126-144) and the main thread, whose
\* client.loop_forever() (controller.py:278) runs on_message
\* (controller.py:190-245).  A thread's step is one access to the shared
\* globals, or the blocking HTTP call.  The weather thread is a daemon: it
\* takes no step once the main thread has left the script.

ORIGINAL_SETPOINT_TEMP == 2000
LOW_OUTSIDE_TEMP == 500
HIGH_OUTSIDE_TEMP == 1800
SETPOINT_STEP == 100

Threads == {"weather", "main"}

\* A local variable that has not been assigned.
Unset == [t |-> "unset"]

\* round(x, 1) on hundredths: to the nearest tenth, a tie to the even tenth.
Round1(x) ==
    LET q == x \div 10
        r == x % 10
    IN  IF r < 5 THEN 10 * q
        ELSE IF r > 5 THEN 10 * (q + 1)
        ELSE IF q % 2 = 0 THEN 10 * q ELSE 10 * (q + 1)

\* adjust_setpoint's new_setpoint, controller.py:92-106.
NewSetpointMutInclusive(outside_temp_c, original_setpoint) ==
    Round1(IF outside_temp_c <= LOW_OUTSIDE_TEMP
           THEN original_setpoint - SETPOINT_STEP
           ELSE IF outside_temp_c >= HIGH_OUTSIDE_TEMP
           THEN original_setpoint + SETPOINT_STEP
           ELSE original_setpoint)
NewSetpoint(outside_temp_c, original_setpoint) ==
    Round1(IF outside_temp_c < LOW_OUTSIDE_TEMP
           THEN original_setpoint - SETPOINT_STEP
           ELSE IF outside_temp_c > HIGH_OUTSIDE_TEMP
           THEN original_setpoint + SETPOINT_STEP
           ELSE original_setpoint)

\* What a fetch that returned `fetched` stores as the last outside
\* temperature: controller.py:123 and 86-91.
LastOutsideMutUnguarded(fetched) == fetched
LastOutsideMutKeep(fetched) == global_last_fetched_outside_temp
LastOutsideAfterFetch(fetched) ==
    IF fetched = None THEN global_last_fetched_outside_temp ELSE fetched

\* The process is alive: the main thread has not reached the end of the
\* script (or exit(1)).
Running == pc["main"] # "exited"

\* Where a thread continues when its refresh is over.
AfterRefresh(t) == IF t = "weather" THEN "loop" ELSE "log_location"

\* do_weather_update_and_setpoint_adjustment, controller.py:116-120: read the
\* location; without a key (or a location) the cycle is skipped.
RefreshBegin(t) ==
    /\ Running
    /\ pc[t] = "refresh"
    /\ refreshes < MaxRefreshes
    /\ refreshes' = refreshes + 1
    /\ current_location_to_fetch' =
           [current_location_to_fetch EXCEPT ![t] = global_weather_api_location]
    /\ outside_temp' = [outside_temp EXCEPT ![t] = Unset]
    /\ pc' = [pc EXCEPT ![t] =
                 IF ~WEATHER_API_KEY \/ global_weather_api_location = ""
                 THEN AfterRefresh(t) ELSE "fetching"]
    /\ UNCHANGED <<status_feed, WEATHER_API_KEY, global_current_setpoint_temp,
                   global_weather_api_location, global_last_fetched_outside_temp,
                   weather_thread_stop_event, weather_fetch_trigger_event,
                   readings, commands>>
    /\ UNCHANGED fetched_for
    /\ UNCHANGED <<dashVars, senVars, webVars, tmpVars>>

\* fetch_weather_data returns (controller.py:46-81, 122): None for an HTTP,
\* connection or timeout error, an undecodable body or one without
\* current.temp_c, else the temperature.  On a value, adjust_setpoint stores
\* it (controller.py:91) before it computes the setpoint.
FetchReturns(t, fetched) ==
    /\ Running
    /\ pc[t] = "fetching"
    /\ outside_temp' = [outside_temp EXCEPT ![t] = fetched]
    /\ global_last_fetched_outside_temp' = LastOutsideAfterFetch(fetched)
    /\ pc' = [pc EXCEPT ![t] = IF fetched = None THEN AfterRefresh(t)
                               ELSE "installing"]
    /\ UNCHANGED <<status_feed, WEATHER_API_KEY, global_current_setpoint_temp,
                   global_weather_api_location, weather_thread_stop_event,
                   weather_fetch_trigger_event, current_location_to_fetch,
                   readings, refreshes, commands>>
    /\ fetched_for' = IF fetched = None THEN fetched_for
                      ELSE [fetched_for EXCEPT !.last = current_location_to_fetch[t]]
    /\ UNCHANGED <<dashVars, senVars, webVars, tmpVars>>

\* adjust_setpoint, controller.py:92-111: the new setpoint is installed when
\* it differs from the current one.
InstallSetpoint(t) ==
    /\ Running
    /\ pc[t] = "installing"
    /\ global_current_setpoint_temp' =
           Num(NewSetpoint(outside_temp[t].v, ORIGINAL_SETPOINT_TEMP))
    /\ pc' = [pc EXCEPT ![t] = AfterRefresh(t)]
    /\ UNCHANGED <<status_feed, WEATHER_API_KEY, global_weather_api_location,
                   global_last_fetched_outside_temp, weather_thread_stop_event,
                   weather_fetch_trigger_event, current_location_to_fetch,
                   outside_temp, readings, refreshes, commands>>
    /\ fetched_for' = [fetched_for EXCEPT !.setpoint = current_location_to_fetch[t]]
    /\ UNCHANGED <<dashVars, senVars, webVars, tmpVars>>

\* controller.py:133: the loop condition of the weather thread.
WeatherLoop ==
    /\ Running
    /\ pc["weather"] = "loop"
    /\ pc' = [pc EXCEPT !["weather"] =
                 IF weather_thread_stop_event THEN "stopped" ELSE "wait"]
    /\ UNCHANGED <<status_feed, WEATHER_API_KEY, global_current_setpoint_temp,
                   global_weather_api_location, global_last_fetched_outside_temp,
                   weather_thread_stop_event, weather_fetch_trigger_event,
                   current_location_to_fetch, outside_temp, readings,
                   refreshes, commands>>
    /\ UNCHANGED fetched_for
    /\ UNCHANGED <<dashVars, senVars, webVars, tmpVars>>

\* controller.py:135-140: wait() returns True at once when the trigger is
\* set, else False after WEATHER_FETCH_INTERVAL; the stop event ends the
\* loop, a trigger is cleared.
AfterWaitMutIgnoresStop(stop) == "refresh"
AfterWait(stop) == IF stop THEN "stopped" ELSE "refresh"

\* The wait returns.  A run has at most MaxRefreshes refreshes: the loop
\* wakes for another one only while some are left.
WeatherWake ==
    /\ Running
    /\ pc["weather"] = "wait"
    /\ weather_thread_stop_event \/ refreshes < MaxRefreshes
    /\ pc' = [pc EXCEPT !["weather"] = AfterWait(weather_thread_stop_event)]
    /\ weather_fetch_trigger_event' =
           IF weather_thread_stop_event THEN weather_fetch_trigger_event
           ELSE FALSE
    /\ UNCHANGED <<status_feed, WEATHER_API_KEY, global_current_setpoint_temp,
                   global_weather_api_location, global_last_fetched_outside_temp,
                   weather_thread_stop_event, current_location_to_fetch,
                   outside_temp, readings, refreshes, commands>>
    /\ UNCHANGED fetched_for
    /\ UNCHANGED <<dashVars, senVars, webVars, tmpVars>>

\* A command message, controller.py:194-222.  cmd.json_ok = FALSE: not JSON.
\* Only UPDATE_LOCATION with a non-empty location other than the current one
\* changes anything: it switches the location (controller.py:204) and starts
\* a refresh on this thread.
SwitchesLocationMutEmptyAllowed(cmd) ==
    /\ cmd.json_ok
    /\ Get(cmd.payload, "command") = Str("UPDATE_LOCATION")
    /\ Get(cmd.payload, "location").t = "str"
    /\ Get(cmd.payload, "location").s # global_weather_api_location
SwitchesLocation(cmd) ==
    /\ cmd.json_ok
    /\ Get(cmd.payload, "command") = Str("UPDATE_LOCATION")
    /\ Get(cmd.payload, "location") \notin {None, Str("")}
    /\ Get(cmd.payload, "location").t = "str"
    /\ Get(cmd.payload, "location").s # global_weather_api_location

on_message_command(cmd) ==
    /\ pc["main"] = "idle"
    /\ commands < MaxCommands
    /\ commands' = commands + 1
    /\ LET switch == SwitchesLocation(cmd)
       IN  /\ global_weather_api_location' =
                  IF switch THEN cmd.payload["location"].s
                  ELSE global_weather_api_location
           /\ pc' = [pc EXCEPT !["main"] = IF switch THEN "refresh" ELSE "idle"]
    /\ UNCHANGED <<status_feed, WEATHER_API_KEY, global_current_setpoint_temp,
                   global_last_fetched_outside_temp, weather_thread_stop_event,
                   weather_fetch_trigger_event, current_location_to_fetch,
                   outside_temp, readings, refreshes>>
    /\ UNCHANGED fetched_for
    /\ UNCHANGED <<dashVars, senVars, webVars, tmpVars>>

\* controller.py:206-211 and log_to_database, controller.py:165-178: the
\* LOCATION_UPDATE row; a database error is logged and the row is lost.
LogLocationUpdate(inserted) ==
    /\ pc["main"] = "log_location"
    /\ readings' =
           IF inserted
           THEN Append(readings,
                       [temperature |-> None,
                        action |-> Str("LOCATION_UPDATE"),
                        setpoint |-> global_current_setpoint_temp,
                        outside_temp |-> global_last_fetched_outside_temp,
                        location |-> global_weather_api_location])
           ELSE readings
    /\ pc' = [pc EXCEPT !["main"] = "idle"]
    /\ UNCHANGED <<status_feed, WEATHER_API_KEY, global_current_setpoint_temp,
                   global_weather_api_location, global_last_fetched_outside_temp,
                   weather_thread_stop_event, weather_fetch_trigger_event,
                   current_location_to_fetch, outside_temp, refreshes, commands>>
    /\ UNCHANGED fetched_for
    /\ UNCHANGED <<dashVars, senVars, webVars, tmpVars>>

MaxReadings == 1    \* rows the temperature branch logs in one run

\* A temperature message, controller.py:225-238: the reading is compared
\* with the setpoint as it is now.  A payload that is not JSON or lacks the
\* key is logged and dropped; a reading that is not a number makes the
\* comparison raise TypeError, caught at controller.py:244.
on_message_temperature(msg) ==
    /\ pc["main"] = "idle"
    /\ Len(readings) < MaxReadings
    /\ LET compared == /\ msg.json_ok
                       /\ "temperature" \in DOMAIN msg.payload
                       /\ Comparable(msg.payload["temperature"],
                                     global_current_setpoint_temp)
       IN  /\ current_indoor_temp' =
                  IF msg.json_ok /\ "temperature" \in DOMAIN msg.payload
                  THEN msg.payload["temperature"] ELSE current_indoor_temp
           /\ action' =
                  IF compared
                  THEN ActionFor(msg.payload["temperature"],
                                 global_current_setpoint_temp)
                  ELSE action
           /\ pc' = [pc EXCEPT !["main"] =
                        IF compared THEN "log_reading" ELSE "idle"]
    /\ UNCHANGED <<status_feed, WEATHER_API_KEY, global_current_setpoint_temp,
                   global_weather_api_location, global_last_fetched_outside_temp,
                   weather_thread_stop_event, weather_fetch_trigger_event,
                   current_location_to_fetch, outside_temp, readings,
                   refreshes, commands, fetched_for>>
    /\ UNCHANGED <<dashVars, senVars, webVars>>

\* controller.py:239 and log_to_database, controller.py:165-178: the row is
\* built from the globals as they are when the call is made; a database
\* error is logged and the row is lost.
LogReading(inserted) ==
    /\ pc["main"] = "log_reading"
    /\ readings' =
           IF inserted
           THEN Append(readings,
                       [temperature |-> current_indoor_temp,
                        action |-> action,
                        setpoint |-> global_current_setpoint_temp,
                        outside_temp |-> global_last_fetched_outside_temp,
                        location |-> global_weather_api_location])
           ELSE readings
    /\ pc' = [pc EXCEPT !["main"] = "idle"]
    /\ UNCHANGED <<status_feed, WEATHER_API_KEY, global_current_setpoint_temp,
                   global_weather_api_location, global_last_fetched_outside_temp,
                   weather_thread_stop_event, weather_fetch_trigger_event,
                   current_location_to_fetch, outside_temp, refreshes,
                   commands, fetched_for>>
    /\ UNCHANGED <<current_indoor_temp, action>>
    /\ UNCHANGED <<dashVars, senVars, webVars>>

\* client.connect at start-up, controller.py:263-275.  When it raises, the
\* stop event is set and the main thread joins the weather thread, without
\* a timeout, before exit(1).
Connect(connected) ==
    /\ pc["main"] = "connect"
    /\ pc' = [pc EXCEPT !["main"] = IF connected THEN "idle" ELSE "join_forever"]
    /\ weather_thread_stop_event' = ~connected
    /\ UNCHANGED <<status_feed, WEATHER_API_KEY, global_current_setpoint_temp,
                   global_weather_api_location, global_last_fetched_outside_temp,
                   weather_fetch_trigger_event, current_location_to_fetch,
                   outside_temp, readings, refreshes, commands>>
    /\ UNCHANGED fetched_for
    /\ UNCHANGED <<dashVars, senVars, webVars, tmpVars>>

\* controller.py:269-270 and 274-275: join() returns once the weather thread
\* has ended.
ExitAfterConnectFailure ==
    /\ pc["main"] = "join_forever"
    /\ pc["weather"] = "stopped"
    /\ pc' = [pc EXCEPT !["main"] = "exited"]
    /\ UNCHANGED <<status_feed, WEATHER_API_KEY, global_current_setpoint_temp,
                   global_weather_api_location, global_last_fetched_outside_temp,
                   weather_thread_stop_event, weather_fetch_trigger_event,
                   current_location_to_fetch, outside_temp, readings,
                   refreshes, commands>>
    /\ UNCHANGED fetched_for
    /\ UNCHANGED <<dashVars, senVars, webVars, tmpVars>>

\* loop_forever is left (KeyboardInterrupt, or an exception), wherever
\* on_message is: the finally block sets both events, controller.py:283-286.
Shutdown ==
    /\ pc["main"] \in {"idle", "refresh", "fetching", "installing",
                       "log_location", "log_reading"}
    /\ weather_thread_stop_event' = TRUE
    /\ weather_fetch_trigger_event' = TRUE
    /\ pc' = [pc EXCEPT !["main"] = "join"]
    /\ UNCHANGED <<status_feed, WEATHER_API_KEY, global_current_setpoint_temp,
                   global_weather_api_location, global_last_fetched_outside_temp,
                   current_location_to_fetch, outside_temp, readings,
                   refreshes, commands>>
    /\ UNCHANGED fetched_for
    /\ UNCHANGED <<dashVars, senVars, webVars, tmpVars>>

\* controller.py:287-294: join(timeout=5) returns when the weather thread
\* has ended or after five seconds; then the client disconnects and the
\* script ends.
ExitAfterShutdown ==
    /\ pc["main"] = "join"
    /\ pc' = [pc EXCEPT !["main"] = "exited"]
    /\ UNCHANGED <<status_feed, WEATHER_API_KEY, global_current_setpoint_temp,
                   global_weather_api_location, global_last_fetched_outside_temp,
                   weather_thread_stop_event, weather_fetch_trigger_event,
                   current_location_to_fetch, outside_temp, readings,
                   refreshes, commands>>
    /\ UNCHANGED fetched_for
    /\ UNCHANGED <<dashVars, senVars, webVars, tmpVars>>

----------------------------------------------------------------------------
\* Sensor, src/sensor/sensor.py.  The temperature is in hundredths of a
\* degree, as everywhere; the change drawn by random.uniform and the sum
\* before rounding are in thousandths, so that round(new_temp, 2) has
\* something to round.

INITIAL_TEMP == 2000
TEMP_VARIATION == 50
MIN_TEMP == 1000
MAX_TEMP == 3000

\* round(x, 2) of x thousandths, in hundredths: a tie goes to the even digit.
Round2(x) ==
    LET q == x \div 10
        r == x % 10
    IN  IF r < 5 THEN q
        ELSE IF r > 5 THEN q + 1
        ELSE IF q % 2 = 0 THEN q ELSE q + 1

\* simulate_temperature, sensor.py:38-47, for the change that was drawn.
simulate_temperatureMutUnclamped(current_temp, change) ==
    Round2(10 * current_temp + change)
simulate_temperature(current_temp, change) ==
    LET new_temp == 10 * current_temp + change
    IN  Round2(IF new_temp < 10 * MIN_TEMP THEN 10 * MIN_TEMP
               ELSE IF new_temp > 10 * MAX_TEMP THEN 10 * MAX_TEMP
               ELSE new_temp)

\* One turn of the main loop, sensor.py:67-90: simulate, publish, and on a
\* failed publish reconnect if the client is not connected; then sleep.
\* accepted: result.rc is MQTT_ERR_SUCCESS (not possible without a
\* connection); reconnected: client.reconnect() did not raise.
sensor_loop(change, accepted, reconnected) ==
    /\ accepted => sensor_is_connected
    /\ current_temperature' = simulate_temperature(current_temperature, change)
    /\ last_publish' = [from |-> current_temperature, change |-> change,
                        reading |-> Num(current_temperature'), ok |-> accepted]
    /\ sensor_is_connected' =
           IF ~accepted /\ ~sensor_is_connected THEN reconnected
           ELSE sensor_is_connected
    /\ UNCHANGED <<dashVars, ctlVars, webVars, tmpVars>>

\* The network thread started by client.loop_start(), sensor.py:64: the
\* connection to the broker is acknowledged, or is lost.
SensorLink(up) ==
    /\ sensor_is_connected # up
    /\ sensor_is_connected' = up
    /\ UNCHANGED <<current_temperature, last_publish>>
    /\ UNCHANGED <<dashVars, ctlVars, webVars, tmpVars>>

----------------------------------------------------------------------------
\* Inputs.

\* 19.0 and 20.0 degrees: readings and setpoints below, at and above each other.
InputTemps == {1900, 2000}

\* {"temperature": v}, {} and a payload that is not JSON.
TempValues == {Num(v) : v \in InputTemps} \cup {None, Str("abc")}
TempPayloads == {<<>>} \cup {[temperature |-> v] : v \in TempValues}

SetpointValues == {Num(v) : v \in InputTemps} \cup {None, Str("abc")}
\* Every subset of the keys location, current_setpoint, last_outside_temp.
StatusPayloads ==
    {sp @@ ot @@ loc :
        sp \in {<<>>} \cup {[current_setpoint |-> v] : v \in SetpointValues},
        ot \in {<<>>, [last_outside_temp |-> Num(1200)]},
        loc \in {<<>>, [location |-> Str("Paris")]}}

Messages ==
    {Msg(TEMP_DATA_TOPIC, p) : p \in TempPayloads}
    \cup {Msg(CONTROLLER_STATUS_TOPIC, p) : p \in StatusPayloads}
    \cup {BadJson(TEMP_DATA_TOPIC), BadJson(CONTROLLER_STATUS_TOPIC)}

\* Well-formed messages: a numeric reading, a full status with a numeric setpoint.
WellFormed ==
    {Msg(TEMP_DATA_TOPIC, [temperature |-> Num(v)]) : v \in InputTemps}
    \cup {Msg(CONTROLLER_STATUS_TOPIC,
              [location |-> Str("Paris"), current_setpoint |-> Num(v),
               last_outside_temp |-> Num(1200)]) : v \in InputTemps}

\* Outside temperatures the weather service reports: 4.9, 5.0, 12.0, 18.0, 18.1.
OutsideTemps == {490, 500, 1200, 1800, 1810}
FetchResults == {None} \cup {Num(v) : v \in OutsideTemps}

Cmd(payload) == [json_ok |-> TRUE, payload |-> payload]
Commands ==
    {Cmd([command |-> Str("UPDATE_LOCATION"), location |-> Str(l)]) :
        l \in {"London", "Paris", ""}}
    \cup {Cmd([command |-> Str("UPDATE_LOCATION")]),
          Cmd([command |-> Str("RESET"), location |-> Str("Paris")]),
          [json_ok |-> FALSE, payload |-> <<>>]}

\* Temperature messages the controller receives: the dashboard's readings,
\* including 20.0, equal to the base setpoint.
ControllerReadings ==
    {Msg(TEMP_DATA_TOPIC, p) : p \in TempPayloads}
    \cup {BadJson(TEMP_DATA_TOPIC)}

\* What the weather service answers while readings arrive: nothing, 4.9, 12.0.
ThermostatFetches == {None, Num(490), Num(1200)}

\* Changes random.uniform(-0.5, 0.5) draws, in thousandths: both ends, zero,
\* and values whose sum falls between two hundredths.
Changes == {-10 * TEMP_VARIATION, -(5 * TEMP_VARIATION + 5), -5, 0, 5,
            5 * TEMP_VARIATION + 5, 10 * TEMP_VARIATION}

\* The traffic of the live feed: a reading of 19.0 and a status whose setpoint
\* of 20.0 turns the heater on.
FeedMessages ==
    {Msg(TEMP_DATA_TOPIC, [temperature |-> Num(1900)]),
     Msg(CONTROLLER_STATUS_TOPIC,
         [location |-> Str("Paris"), current_setpoint |-> Num(2000),
          last_outside_temp |-> Num(1200)])}

----------------------------------------------------------------------------
\* The web side of the dashboard, src/app.py: the command publisher
\* (app.py:209-254), the routes / and /update_location (app.py:280-352), and
\* on_subscriber_message as the request threads see it, between its writes.

MaxPublished == 2   \* commands the dashboard publishes in one run

Bool(b) == [t |-> "bool", v |-> b]

\* setup_app_mqtt_publisher, app.py:226-254: the publisher state after the
\* call and whether client.connect was called.  Once _mqtt_publisher_started
\* is set the function returns at app.py:230-232 without touching the client.
\* After a successful connect the client is not yet is_connected(): that
\* comes with the broker's acknowledgement, as does the connected flag.
setup_app_mqtt_publisher(connect_ok) ==
    IF mqtt_publisher_started
    THEN [started |-> TRUE, connected |-> mqtt_publisher_connected,
          client |-> app_mqtt_publisher_client, connect_called |-> FALSE]
    ELSE IF connect_ok
    THEN [started |-> TRUE, connected |-> mqtt_publisher_connected,
          client |-> "down", connect_called |-> TRUE]
    ELSE [started |-> FALSE, connected |-> Bool(FALSE),
          client |-> "down", connect_called |-> TRUE]

\* app.py:357: the publisher is set up when the serving process starts.
StartPublisher(connect_ok) ==
    /\ app_mqtt_publisher_client = "none"
    /\ LET s == setup_app_mqtt_publisher(connect_ok)
       IN  /\ mqtt_publisher_started' = s.started
           /\ mqtt_publisher_connected' = s.connected
           /\ app_mqtt_publisher_client' = s.client
    /\ UNCHANGED <<handler_pc, rendered, command_topic, last_request>>
    /\ UNCHANGED <<dashVars, ctlVars, senVars, tmpVars>>

\* on_publisher_connect, app.py:210-217, called by the client's network
\* thread (first connection, or a reconnection of the running loop).
on_publisher_connect(rc_ok) ==
    /\ mqtt_publisher_started
    /\ app_mqtt_publisher_client = "down"
    /\ mqtt_publisher_connected' = Bool(rc_ok)
    /\ app_mqtt_publisher_client' = IF rc_ok THEN "up" ELSE "down"
    /\ UNCHANGED <<handler_pc, rendered, mqtt_publisher_started,
                   command_topic, last_request>>
    /\ UNCHANGED <<dashVars, ctlVars, senVars, tmpVars>>

\* on_publisher_disconnect, app.py:219-222.
on_publisher_disconnect ==
    /\ app_mqtt_publisher_client = "up"
    /\ mqtt_publisher_connected' = Bool(FALSE)
    /\ app_mqtt_publisher_client' = "down"
    /\ UNCHANGED <<handler_pc, rendered, mqtt_publisher_started,
                   command_topic, last_request>>
    /\ UNCHANGED <<dashVars, ctlVars, senVars, tmpVars>>

\* POST /update_location, app.py:330-352.  The module never assigns
\* mqtt_publisher_connected at top level: read before a callback or a failed
\* setup has assigned it, it raises NameError and the request fails.  An
\* exception of publish, or a failure rc, is logged (publish_ok = FALSE).
update_location(new_location, connect_ok, publish_ok) ==
    /\ Len(command_topic) < MaxPublished
    /\ LET has == new_location # ""
           name_error == has /\ mqtt_publisher_connected = Unset
           reconnect == /\ has
                        /\ ~name_error
                        /\ \/ ~mqtt_publisher_connected.v
                           \/ app_mqtt_publisher_client # "up"
           s == IF reconnect THEN setup_app_mqtt_publisher(connect_ok)
                ELSE [started |-> mqtt_publisher_started,
                      connected |-> mqtt_publisher_connected,
                      client |-> app_mqtt_publisher_client,
                      connect_called |-> FALSE]
           sent == /\ has
                   /\ ~name_error
                   /\ s.connected = Bool(TRUE)
                   /\ s.client = "up"
                   /\ publish_ok
       IN  /\ mqtt_publisher_started' = s.started
           /\ mqtt_publisher_connected' = s.connected
           /\ app_mqtt_publisher_client' = s.client
           /\ command_topic' =
                  IF sent
                  THEN Append(command_topic,
                              Cmd([command |-> Str("UPDATE_LOCATION"),
                                   location |-> Str(new_location)]))
                  ELSE command_topic
           /\ last_request' =
                  [location |-> new_location,
                   reconnect |-> reconnect,
                   connect_called |-> s.connect_called,
                   sent |-> sent,
                   response |-> IF name_error THEN "error" ELSE "redirect"]
    /\ UNCHANGED <<handler_pc, rendered>>
    /\ UNCHANGED <<dashVars, ctlVars, senVars, tmpVars>>

\* GET /, app.py:322-328: the two dicts and the flag handed to the template,
\* as they are at that moment.
index ==
    /\ rendered' =
           IF mqtt_publisher_connected = Unset THEN [t |-> "error"]
           ELSE [t |-> "page",
                 initial_sensor_data |-> latest_sensor_data,
                 initial_controller_status |-> latest_controller_status,
                 mqtt_available |-> mqtt_publisher_connected.v]
    /\ UNCHANGED <<handler_pc, mqtt_publisher_started, mqtt_publisher_connected,
                   app_mqtt_publisher_client, command_topic, last_request>>
    /\ UNCHANGED <<dashVars, ctlVars, senVars, tmpVars>>

\* on_subscriber_message for a controller status, up to app.py:170: the
\* status is stored, logged and broadcast.  The handler runs on the
\* subscriber's network thread; the routes run on request threads.
on_status_stored(msg) ==
    /\ handler_pc = "idle"
    /\ Len(processed) < MaxMsgs
    /\ msg.topic = CONTROLLER_STATUS_TOPIC
    /\ msg.json_ok
    /\ LET r == OnControllerStatus(msg.payload, today, today, "ok")
       IN  /\ latest_controller_status' = r.status
           /\ current_app_db_name' = r.name
           /\ db_tables' = r.tables
           /\ db' = r.db
           /\ sse_queue' = Append(sse_queue,
                                  Event("controller_status", r.status, produced + 1))
    /\ produced' = produced + 1
    /\ processed' = Append(processed, msg)
    /\ handler_pc' = "reevaluate"
    /\ UNCHANGED <<latest_sensor_data, today, observer, received, attached_at>>
    /\ UNCHANGED <<rendered, mqtt_publisher_started, mqtt_publisher_connected,
                   app_mqtt_publisher_client, command_topic, last_request>>
    /\ UNCHANGED <<ctlVars, senVars, tmpVars>>

\* The rest of the handler, app.py:172-177: the action is re-evaluated.
on_status_reevaluated ==
    /\ handler_pc = "reevaluate"
    /\ LET temp == Get(latest_sensor_data, "temperature")
           setpoint == Get(latest_controller_status, "current_setpoint")
           flips == /\ temp # None
                    /\ setpoint # None
                    /\ Comparable(temp, setpoint)
                    /\ ActionFor(temp, setpoint) # Get(latest_sensor_data, "action")
           sensor == IF flips
                     THEN SetAction(latest_sensor_data, ActionFor(temp, setpoint))
                     ELSE latest_sensor_data
       IN  /\ latest_sensor_data' = sensor
           /\ sse_queue' = IF flips
                           THEN Append(sse_queue,
                                       Event("sensor_update", sensor, produced + 1))
                           ELSE sse_queue
           /\ produced' = IF flips THEN produced + 1 ELSE produced
    /\ handler_pc' = "idle"
    /\ UNCHANGED <<latest_controller_status, current_app_db_name, db_tables,
                   db, today, observer, received, processed, attached_at>>
    /\ UNCHANGED <<rendered, mqtt_publisher_started, mqtt_publisher_connected,
                   app_mqtt_publisher_client, command_topic, last_request>>
    /\ UNCHANGED <<ctlVars, senVars, tmpVars>>

----------------------------------------------------------------------------
\* The dashboard after the module is loaded (app.py:32, 54, 113-117), with
\* no client yet.
DashInit ==
    /\ latest_sensor_data = [temperature |-> None, timestamp_iso |-> None,
                             action |-> None]
    /\ latest_controller_status = [location |-> Str("Unknown"),
                                   current_setpoint |-> None,
                                   last_outside_temp |-> None,
                                   timestamp_iso |-> None]
    /\ today = 1
    /\ current_app_db_name = get_daily_db_name(1)
    /\ db_tables = {get_daily_db_name(1)}
    /\ db = [d \in Days |-> <<>>]
    /\ sse_queue = <<>>
    /\ observer = [o \in Observers |-> "detached"]
    /\ received = [o \in Observers |-> <<>>]
    /\ processed = <<>>
    /\ produced = 0
    /\ attached_at = [o \in Observers |-> 0]

\* The controller when its weather thread starts (controller.py:31-44, 260).
CtlInit ==
    /\ global_current_setpoint_temp = Num(ORIGINAL_SETPOINT_TEMP)
    /\ global_weather_api_location = "London"
    /\ global_last_fetched_outside_temp = None
    /\ weather_thread_stop_event = FALSE
    /\ weather_fetch_trigger_event = FALSE
    /\ pc = [t \in Threads |-> IF t = "weather" THEN "refresh" ELSE "connect"]
    /\ current_location_to_fetch = [t \in Threads |-> ""]
    /\ outside_temp = [t \in Threads |-> Unset]
    /\ readings = <<>>
    /\ status_feed = <<>>
    /\ refreshes = 0
    /\ commands = 0
    /\ fetched_for = [last |-> "", setpoint |-> ""]
    /\ current_indoor_temp = Unset
    /\ action = Unset

\* The sensor when it enters its loop (sensor.py:26, 56-64): the broker has
\* not yet acknowledged the connection.
SenInit ==
    /\ current_temperature = INITIAL_TEMP
    /\ sensor_is_connected = FALSE
    /\ last_publish = [from |-> INITIAL_TEMP, change |-> 0,
                       reading |-> None, ok |-> TRUE]

\* The dashboard's web side when the module is loaded (app.py:104-106): no
\* client, and mqtt_publisher_connected not assigned.
WebInit ==
    /\ handler_pc = "idle"
    /\ rendered = Unset
    /\ mqtt_publisher_started = FALSE
    /\ mqtt_publisher_connected = Unset
    /\ app_mqtt_publisher_client = "none"
    /\ command_topic = <<>>
    /\ last_request = Unset

Init == DashInit /\ CtlInit /\ SenInit /\ WebInit /\ WEATHER_API_KEY = TRUE

\* The reconciler alone: any message, a working store, no date change.
Next == \E msg \in Messages : on_subscriber_message(msg, today, "ok")

Spec == Init /\ [][Next]_vars

\* The reconciler over a store that can fail and a clock that advances.
NextStore ==
    \/ DateChange
    \/ \E msg \in WellFormed, log_day \in Days, outcome \in DbOutcomes :
          on_subscriber_message(msg, log_day, outcome)

SpecStore == Init /\ [][NextStore]_vars

\* The reconciler feeding the SSE clients.
NextFeed ==
    \/ \E msg \in FeedMessages :
          Len(processed) < MaxFeedMsgs /\ on_subscriber_message(msg, today, "ok")
    \/ \E o \in Observers : dashboard_feed(o)
    \/ \E o \in Observers : event_stream(o)
    \/ \E o \in Observers : ObserverBlocks(o)

SpecFeed == Init /\ [][NextFeed]_vars

\* The controller, with or without a weather API key in its environment.
InitController ==
    DashInit /\ CtlInit /\ SenInit /\ WebInit /\ WEATHER_API_KEY \in BOOLEAN

NextController ==
    \/ \E t \in Threads : RefreshBegin(t)
    \/ \E t \in Threads, fetched \in FetchResults : FetchReturns(t, fetched)
    \/ \E t \in Threads : InstallSetpoint(t)
    \/ WeatherLoop
    \/ WeatherWake
    \/ \E cmd \in Commands : on_message_command(cmd)
    \/ \E inserted \in BOOLEAN : LogLocationUpdate(inserted)
    \/ \E connected \in BOOLEAN : Connect(connected)
    \/ ExitAfterConnectFailure
    \/ Shutdown
    \/ ExitAfterShutdown

SpecController == InitController /\ [][NextController]_vars

\* The controller with sensor traffic and no commands: the weather thread
\* is the only one that refreshes.
NextThermostat ==
    \/ RefreshBegin("weather")
    \/ \E fetched \in ThermostatFetches : FetchReturns("weather", fetched)
    \/ InstallSetpoint("weather")
    \/ WeatherLoop
    \/ WeatherWake
    \/ \E msg \in ControllerReadings : on_message_temperature(msg)
    \/ \E inserted \in BOOLEAN : LogReading(inserted)
    \/ \E connected \in BOOLEAN : Connect(connected)
    \/ ExitAfterConnectFailure
    \/ Shutdown
    \/ ExitAfterShutdown

SpecThermostat == InitController /\ [][NextThermostat]_vars

\* The same, with a weather thread that is scheduled and whose fetch returns
\* (requests.get has timeout=10).
SpecThermostatFair ==
    /\ SpecThermostat
    /\ WF_vars(RefreshBegin("weather"))
    /\ WF_vars(\E fetched \in ThermostatFetches : FetchReturns("weather", fetched))
    /\ WF_vars(InstallSetpoint("weather"))
    /\ WF_vars(WeatherLoop)
    /\ WF_vars(WeatherWake)

\* The sensor's loop and its connection.
NextSensor ==
    \/ \E change \in Changes, accepted \in BOOLEAN, reconnected \in BOOLEAN :
          sensor_loop(change, accepted, reconnected)
    \/ \E up \in BOOLEAN : SensorLink(up)

SpecSensor == Init /\ [][NextSensor]_vars

\* The command publisher and the requests that use it.
NextPublisher ==
    \/ \E connect_ok \in BOOLEAN : StartPublisher(connect_ok)
    \/ \E rc_ok \in BOOLEAN : on_publisher_connect(rc_ok)
    \/ on_publisher_disconnect
    \/ \E new_location \in {"", "Paris", "London"},
          connect_ok \in BOOLEAN, publish_ok \in BOOLEAN :
          update_location(new_location, connect_ok, publish_ok)
    \/ index

SpecPublisher == Init /\ [][NextPublisher]_vars

\* The message handler step by step, with page requests in between.
NextReader ==
    \/ \E msg \in WellFormed :
          /\ handler_pc = "idle"
          /\ msg.topic = TEMP_DATA_TOPIC
          /\ on_subscriber_message(msg, today, "ok")
    \/ \E msg \in WellFormed : on_status_stored(msg)
    \/ on_status_reevaluated
    \/ index
    \/ \E connect_ok \in BOOLEAN : StartPublisher(connect_ok)
    \/ \E rc_ok \in BOOLEAN : on_publisher_connect(rc_ok)

SpecReader == Init /\ [][NextReader]_vars

----------------------------------------------------------------------------
\* What the dashboard has been told so far.

\* The value of `key` in the most recent handled message on `topic` that
\* carried it; None when there was none.
MostRecent(topic, key) ==
    LET S == {i \in 1..Len(processed) :
                 /\ processed[i].topic = topic
                 /\ processed[i].json_ok
                 /\ key \in DOMAIN processed[i].payload}
    IN  IF S = {} THEN None
        ELSE processed[CHOOSE i \in S : \A j \in S : j <= i].payload[key]

IsNum(v) == v.t = "num"

\* The message whose handling is the current step.
Handling(msg) ==
    /\ Len(processed') = Len(processed) + 1
    /\ msg = processed'[Len(processed')]

IsReading(msg) ==
    /\ msg.topic = TEMP_DATA_TOPIC
    /\ msg.json_ok
    /\ "temperature" \in DOMAIN msg.payload

IsSensorRow(r) == r.source = "sensor_update"

\* The sensor-derived rows of the store, oldest partition first.
RECURSIVE SensorRowsUpTo(_)
SensorRowsUpTo(d) ==
    IF d = 0 THEN <<>> ELSE SensorRowsUpTo(d - 1) \o SelectSeq(db[d], IsSensorRow)

----------------------------------------------------------------------------
\* C1: in every state the dashboard's message handler can leave behind, the
\* in-memory action is HEATER ON iff the most recently received temperature
\* is strictly less than the most recently received setpoint, HEATER OFF iff
\* it is greater or equal, and absent while no temperature or no setpoint
\* has been received.
C1_ActionFollowsLatestFacts ==
    LET temp == MostRecent(TEMP_DATA_TOPIC, "temperature")
        setpoint == MostRecent(CONTROLLER_STATUS_TOPIC, "current_setpoint")
    IN  IF IsNum(temp) /\ IsNum(setpoint)
        THEN latest_sensor_data["action"] =
                 (IF temp.v < setpoint.v THEN HEATER_ON ELSE HEATER_OFF)
        ELSE latest_sensor_data["action"] = None

\* C2: after exactly one reading T and one status with setpoint S, in either
\* order, latest_sensor_data carries temperature T, setpoint S and the
\* action ON iff T < S.
C2_SameDecisionInBothOrders ==
    LET temp == MostRecent(TEMP_DATA_TOPIC, "temperature")
        setpoint == MostRecent(CONTROLLER_STATUS_TOPIC, "current_setpoint")
    IN  (/\ Len(processed) = 2
         /\ processed[1].topic # processed[2].topic
         /\ IsNum(temp) /\ IsNum(setpoint))
        => /\ Get(latest_sensor_data, "temperature") = temp
           /\ Get(latest_sensor_data, "current_setpoint") = setpoint
           /\ Get(latest_sensor_data, "action") =
                  (IF temp.v < setpoint.v THEN HEATER_ON ELSE HEATER_OFF)

\* C3: handling a reading while the known setpoint is absent, or a reading
\* whose temperature is null, keeps a previously computed action.
C3_ActionHeldWhenInputMissing ==
    [][\A msg \in Messages :
          (/\ Handling(msg)
           /\ IsReading(msg)
           /\ \/ Get(latest_controller_status, "current_setpoint") = None
              \/ msg.payload["temperature"] = None
           /\ latest_sensor_data["action"] # None)
          => latest_sensor_data'["action"] = latest_sensor_data["action"]]_vars

\* C4: with one client blocked, once the queue is drained every other
\* attached client has been sent every event produced since it attached, in
\* production order.
C4_OtherObserversReceiveEveryEvent ==
    (/\ sse_queue = <<>>
     /\ \E o \in Observers : observer[o] = "blocked")
    => \A o \in Observers :
          observer[o] = "waiting"
          => /\ \A n \in (attached_at[o] + 1)..produced :
                   \E i \in 1..Len(received[o]) : received[o][i].seq = n
             /\ \A i, j \in 1..Len(received[o]) :
                   i < j => received[o][i].seq < received[o][j].seq

\* C5: a client is sent no event that was produced before it attached.
C5_NoBacklogForNewObserver ==
    \A o \in Observers :
        \A i \in 1..Len(received[o]) : received[o][i].seq > attached_at[o]

\* C6: every row of a daily partition carries a timestamp of that day.
C6_RowInPartitionOfItsTimestamp ==
    \A d \in Days :
        \A i \in 1..Len(db[d]) : db[d][i].timestamp.day = d

\* C7: whatever the store does, handling a well-formed message still
\* broadcasts its event.
C7_BroadcastDespiteStoreFailure ==
    [][\A msg \in WellFormed :
          Handling(msg) => Len(sse_queue') > Len(sse_queue)]_vars

\* C8: the action of the most recently persisted sensor-derived row equals
\* the in-memory action whenever the handler has returned.
C8_PersistedActionIsCurrent ==
    LET rows == SensorRowsUpTo(MaxDay)
    IN  rows # <<>> => rows[Len(rows)].action = latest_sensor_data["action"]

\* C9: adjust_setpoint with base 20.0 installs 19.0 when outside < 5.0, 21.0
\* when outside > 18.0 and 20.0 otherwise (5.0 and 18.0 included), and the
\* controller's setpoint is always one of 19.0, 20.0, 21.0, never null.
C9_SetpointBands ==
    /\ [](global_current_setpoint_temp \in {Num(1900), Num(2000), Num(2100)})
    /\ [][\A t \in Threads :
             (pc[t] = "installing" /\ pc'[t] = AfterRefresh(t))
             => global_current_setpoint_temp' =
                    Num(IF outside_temp[t].v < 500 THEN 1900
                        ELSE IF outside_temp[t].v > 1800 THEN 2100
                        ELSE 2000)]_vars

\* An outside temperature of 4.9 was fetched and 19.0 installed for it.
C9_Witness ==
    \E t \in Threads :
        /\ pc[t] = AfterRefresh(t)
        /\ outside_temp[t] = Num(490)
        /\ global_last_fetched_outside_temp = Num(490)
        /\ global_current_setpoint_temp = Num(1900)

\* C10: a refresh whose fetch fails (no API key, or the fetch returns
\* nothing) changes neither the setpoint nor the last outside temperature,
\* and the setpoint is never null.
C10_FailedFetchChangesNothing ==
    /\ [](global_current_setpoint_temp # None)
    /\ [][\A t \in Threads :
             (\/ pc[t] = "fetching" /\ outside_temp'[t] = None
              \/ pc[t] = "refresh" /\ pc'[t] = AfterRefresh(t))
             => UNCHANGED <<global_current_setpoint_temp,
                            global_last_fetched_outside_temp>>]_vars

\* A fetch has failed after an earlier one had succeeded and moved the
\* setpoint off its base.
C10_Witness ==
    \E t \in Threads :
        /\ pc[t] = AfterRefresh(t)
        /\ outside_temp[t] = None
        /\ global_last_fetched_outside_temp # None
        /\ global_current_setpoint_temp # Num(ORIGINAL_SETPOINT_TEMP)

----------------------------------------------------------------------------
\* The controller's commands, publications and threads.

\* The ControllerStatus the controller holds.
ControllerStatus ==
    [location |-> Str(global_weather_api_location),
     current_setpoint |-> global_current_setpoint_temp,
     last_outside_temp |-> global_last_fetched_outside_temp]

\* C11: an UPDATE_LOCATION command naming the location already in effect
\* starts no weather fetch, leaves location, setpoint and last outside
\* temperature as they are, and republishes the current status on the
\* status feed.
C11_SameLocationRepublishes ==
    [][\A cmd \in Commands :
          (/\ Get(cmd.payload, "command") = Str("UPDATE_LOCATION")
           /\ Get(cmd.payload, "location") = Str(global_weather_api_location)
           /\ on_message_command(cmd))
          => /\ pc'["main"] = "idle"
             /\ refreshes' = refreshes
             /\ UNCHANGED <<global_weather_api_location,
                            global_current_setpoint_temp,
                            global_last_fetched_outside_temp>>
             /\ Len(status_feed') = Len(status_feed) + 1
             /\ status_feed'[Len(status_feed')] = ControllerStatus]_vars

\* C12: when a successful fetch installs a setpoint that differs from the
\* previous one, or nothing was published before, a ControllerStatus with
\* the new values is published on the status feed.
C12_ChangedSetpointIsPublished ==
    [][\A t \in Threads :
          (/\ pc[t] = "installing"
           /\ pc'[t] = AfterRefresh(t)
           /\ \/ global_current_setpoint_temp' # global_current_setpoint_temp
              \/ status_feed = <<>>)
          => /\ Len(status_feed') = Len(status_feed) + 1
             /\ status_feed'[Len(status_feed')] = ControllerStatus']_vars

\* C17: a refresh that was started for an earlier location never replaces a
\* last outside temperature or a setpoint obtained for the location now
\* configured.
C17_StaleRefreshNeverOverwrites ==
    [][\A k \in {"last", "setpoint"} :
          (/\ fetched_for[k] = global_weather_api_location
           /\ global_weather_api_location' = global_weather_api_location)
          => fetched_for'[k] = global_weather_api_location]_vars

\* C18: on every path to the end of the process the main thread sets the
\* stop event and the trigger event and joins the weather thread with a
\* timeout.
C18_EveryExitSignalsAndJoinsBounded ==
    [][(/\ pc["main"] \notin {"join", "join_forever", "exited"}
        /\ pc'["main"] \in {"join", "join_forever", "exited"})
       => /\ weather_thread_stop_event'
          /\ weather_fetch_trigger_event'
          /\ pc'["main"] = "join"]_vars

\* The state a command may change: everything the controller holds except
\* the count of commands handled.
CommandState ==
    <<global_weather_api_location, global_current_setpoint_temp,
      global_last_fetched_outside_temp, pc, readings, refreshes,
      current_location_to_fetch, outside_temp, status_feed,
      weather_thread_stop_event, weather_fetch_trigger_event>>

\* An UPDATE_LOCATION command with a non-empty location that is not the one
\* in effect.
NamesNewLocation(cmd) ==
    /\ cmd.json_ok
    /\ Get(cmd.payload, "command") = Str("UPDATE_LOCATION")
    /\ Get(cmd.payload, "location") \notin {None, Str("")}
    /\ Get(cmd.payload, "location") # Str(global_weather_api_location)

\* C23: an UPDATE_LOCATION command with a non-empty location other than the
\* current one sets the location and runs one refresh for it on the main
\* thread before any later message is handled (messages are handled only
\* when the main thread is idle, and the refresh it starts reads the new
\* location); a command without a location, with an empty one or of another
\* kind changes no controller state.
C23_LocationCommand ==
    [][/\ \A cmd \in Commands :
             on_message_command(cmd)
             => IF NamesNewLocation(cmd)
                THEN /\ global_weather_api_location' = cmd.payload["location"].s
                     /\ pc'["main"] = "refresh"
                ELSE (\/ ~cmd.json_ok
                      \/ Get(cmd.payload, "command") # Str("UPDATE_LOCATION")
                      \/ Get(cmd.payload, "location") \in {None, Str("")})
                     => UNCHANGED CommandState
       /\ (pc["main"] = "refresh" /\ pc'["main"] \notin {"refresh", "join"})
          => /\ refreshes' = refreshes + 1
             /\ current_location_to_fetch'["main"] = global_weather_api_location
             /\ pc'["main"] \in {"fetching", "log_location"}
       /\ (pc["main"] = "fetching")
          => pc'["main"] \in {"fetching", "installing", "log_location", "join"}
       /\ (pc["main"] = "installing")
          => pc'["main"] \in {"installing", "log_location", "join"}
       /\ commands' # commands => pc["main"] = "idle"]_vars

\* A command moved the controller to Paris, and the main thread fetched for
\* Paris and is about to log the change.
C23_Witness ==
    /\ global_weather_api_location = "Paris"
    /\ current_location_to_fetch["main"] = "Paris"
    /\ outside_temp["main"] # Unset
    /\ pc["main"] = "log_location"
    /\ commands >= 1

\* C24: with the weather thread the only one that refreshes, a refresh whose
\* fetch returns a temperature v ends with the last outside temperature
\* equal to v and the setpoint equal to the band value of v, also when that
\* is the setpoint already in effect.
C24_SuccessfulRefreshInstalls ==
    [][(pc["weather"] = "installing" /\ pc'["weather"] = "loop")
       => /\ global_last_fetched_outside_temp' = outside_temp["weather"]
          /\ global_current_setpoint_temp' =
                 Num(NewSetpoint(outside_temp["weather"].v,
                                 ORIGINAL_SETPOINT_TEMP))]_vars

\* A fetch returned 12.0 while the setpoint was the base 20.0, and the
\* refresh ended with both values in place.
C24_Witness ==
    /\ pc["weather"] = "loop"
    /\ refreshes >= 1
    /\ outside_temp["weather"] = Num(1200)
    /\ global_last_fetched_outside_temp = Num(1200)
    /\ global_current_setpoint_temp = Num(ORIGINAL_SETPOINT_TEMP)
    /\ fetched_for.setpoint # ""

\* The rows the temperature branch has logged.
ReadingRows == {i \in 1..Len(readings) : readings[i].temperature # None}

\* C25: every row logged for a temperature reading has action HEATER ON when
\* the reading is below the setpoint of that row and HEATER OFF otherwise
\* (a tie is OFF): the row carries the setpoint the reading was compared
\* with.
C25_RowCarriesComparedSetpoint ==
    \A i \in ReadingRows :
        readings[i].action =
            ActionFor(readings[i].temperature, readings[i].setpoint)

\* C27: once the stop event and the trigger event are set the weather
\* thread ends (or the process does); a thread that finds the stop event
\* set at the loop condition or when its wait returns ends without a
\* refresh, so a thread that has ended stays ended and at most the refresh
\* in progress is completed.
C27_WeatherThreadStops ==
    /\ [][/\ (weather_thread_stop_event /\ pc["weather"] \in {"loop", "wait"})
             => pc'["weather"] \in {pc["weather"], "stopped"}
          /\ pc["weather"] = "stopped" => pc'["weather"] = "stopped"
          /\ (weather_thread_stop_event /\ pc["weather"] # "refresh")
             => refreshes' = refreshes]_vars
    /\ (weather_thread_stop_event /\ weather_fetch_trigger_event)
          ~> (pc["weather"] = "stopped" \/ ~Running)

\* The weather thread has ended on the stop event while the main thread is
\* still waiting for it.
C27_Witness ==
    /\ weather_thread_stop_event
    /\ weather_fetch_trigger_event
    /\ pc["weather"] = "stopped"
    /\ pc["main"] = "join"
    /\ refreshes >= 1

\* C28: every row logged for a temperature reading that has an outside
\* temperature has the setpoint that belongs to it, whatever the weather
\* thread is doing when the row is written.
C28_RowSetpointMatchesOutside ==
    \A i \in ReadingRows :
        readings[i].outside_temp # None
        => readings[i].setpoint =
               Num(NewSetpoint(readings[i].outside_temp.v,
                               ORIGINAL_SETPOINT_TEMP))

----------------------------------------------------------------------------
\* The sensor.

\* C13: every temperature the sensor computes and publishes lies between
\* 10.0 and 30.0, whatever changes within -0.5..0.5 are drawn from 20.0 on.
C13_ReadingWithinBounds ==
    /\ current_temperature \in MIN_TEMP..MAX_TEMP
    /\ last_publish.reading # None
       => last_publish.reading.v \in MIN_TEMP..MAX_TEMP

\* A reading of 30.0 was published where the sum had passed 30.0.
C13_Witness ==
    /\ last_publish.reading = Num(MAX_TEMP)
    /\ 10 * last_publish.from + last_publish.change > 10 * MAX_TEMP

\* C14: on the loop turn after a failed publish, the reading handed to
\* publish is the one whose publish failed, not a newly simulated one.
C14_FailedReadingIsPublishedAgain ==
    [][\A change \in Changes, accepted \in BOOLEAN, reconnected \in BOOLEAN :
          (~last_publish.ok /\ sensor_loop(change, accepted, reconnected))
          => last_publish'.reading = last_publish.reading]_vars

----------------------------------------------------------------------------
\* The dashboard's web side.

\* C15: an update_location request made while the publisher, set up
\* earlier, is disconnected calls client.connect once before giving up, and
\* the request ends with the redirect whatever the publish does.
C15_DisconnectedPublishReconnectsFirst ==
    [][\A new_location \in {"Paris", "London"},
          connect_ok \in BOOLEAN, publish_ok \in BOOLEAN :
          (/\ mqtt_publisher_started
           /\ mqtt_publisher_connected = Bool(FALSE)
           /\ update_location(new_location, connect_ok, publish_ok))
          => /\ last_request'.connect_called
             /\ last_request'.response = "redirect"]_vars

\* C16: a page never shows a temperature and a setpoint, both known, with
\* an action other than the comparison of the two.
C16_ReaderSeesConsistentDecision ==
    rendered.t = "page" =>
        LET temp == rendered.initial_sensor_data["temperature"]
            setpoint == rendered.initial_controller_status["current_setpoint"]
        IN  (temp # None /\ setpoint # None)
            => rendered.initial_sensor_data["action"] = ActionFor(temp, setpoint)

\* A message that is not JSON, a reading without the temperature key, or a
\* string where the temperature or the setpoint should be a number.
Malformed(msg) ==
    \/ ~msg.json_ok
    \/ /\ msg.topic = TEMP_DATA_TOPIC
       /\ "temperature" \notin DOMAIN msg.payload
    \/ /\ msg.topic = TEMP_DATA_TOPIC
       /\ Get(msg.payload, "temperature").t = "str"
    \/ /\ msg.topic = CONTROLLER_STATUS_TOPIC
       /\ Get(msg.payload, "current_setpoint").t = "str"

\* C19: handling a malformed message changes neither latest_sensor_data,
\* latest_controller_status, the log store nor the broadcast queue.
C19_MalformedMessageDropped ==
    [][\A msg \in Messages :
          (Malformed(msg) /\ Handling(msg))
          => UNCHANGED <<latest_sensor_data, latest_controller_status,
                         db, sse_queue>>]_vars

\* C20: handling a temperature message leaves location, current_setpoint
\* and last_outside_temp of latest_controller_status as they were; handling
\* a controller status leaves the stored temperature as it was.
C20_OtherSideCarriesOver ==
    [][\A msg \in Messages :
          Handling(msg)
          => /\ msg.topic = TEMP_DATA_TOPIC
                => \A k \in {"location", "current_setpoint", "last_outside_temp"} :
                      latest_controller_status'[k] = latest_controller_status[k]
             /\ msg.topic = CONTROLLER_STATUS_TOPIC
                => latest_sensor_data'["temperature"]
                       = latest_sensor_data["temperature"]]_vars

\* A status with setpoint 20.0 was handled after a reading of 19.0 and
\* turned the action on; the reading is still 19.0.
C20_Witness ==
    /\ Len(processed) >= 2
    /\ processed[Len(processed)].topic = CONTROLLER_STATUS_TOPIC
    /\ latest_controller_status["current_setpoint"] = Num(2000)
    /\ latest_sensor_data["temperature"] = Num(1900)
    /\ latest_sensor_data["action"] = HEATER_ON
    /\ Get(latest_sensor_data, "current_setpoint") # Num(2000)

----------------------------------------------------------------------------
\* Partial statuses, the partition of a call, the order of the feed, and the
\* publisher's flag.

StatusKeys == {"location", "current_setpoint", "last_outside_temp"}

C22_PartitionOfTheCall ==
    [][\A msg \in WellFormed, log_day \in Days, outcome \in DbOutcomes :
          (/\ on_subscriber_message(msg, log_day, outcome)
           /\ ~log_data_to_db("sensor_update", [timestamp_iso |-> Iso(today)],
                              log_day, outcome).raised)
          => /\ current_app_db_name' = get_daily_db_name(log_day)
             /\ get_daily_db_name(log_day) \in db_tables'
             /\ \A d \in Days \ {log_day} : db'[d] = db[d]]_vars

\* C26: an observer receives its events in production order, the queue
\* holds its events in production order, and a status that flips the action
\* enqueues the controller_status event before the sensor_update event.
C26_FeedInProductionOrder ==
    /\ [](/\ \A o \in Observers : \A i, j \in 1..Len(received[o]) :
                i < j => received[o][i].seq < received[o][j].seq
          /\ \A i, j \in 1..Len(sse_queue) :
                i < j => sse_queue[i].seq < sse_queue[j].seq)
    /\ [][produced' = produced + 2
          => /\ sse_queue'[Len(sse_queue') - 1].type = "controller_status"
             /\ sse_queue'[Len(sse_queue')].type = "sensor_update"]_vars

\* One observer received the controller_status event and then the
\* sensor_update event of a status that flipped the action.
C26_Witness ==
    \E o \in Observers :
        /\ Len(received[o]) >= 2
        /\ received[o][Len(received[o]) - 1].type = "controller_status"
        /\ received[o][Len(received[o])].type = "sensor_update"
        /\ received[o][Len(received[o])].seq
               = received[o][Len(received[o]) - 1].seq + 1
        /\ received[o][Len(received[o])].data["action"] = HEATER_ON

\* C29: no request finds mqtt_publisher_connected unassigned: every page
\* was rendered and every update_location request ended with the redirect.
C29_FlagDefinedWhenRead ==
    /\ rendered.t # "error"
    /\ last_request # Unset => last_request.response = "redirect"

====
